---- MODULE Spec2Model ----
(***************************************************************************)
(* Model of dme_selector/views.py: the catalog matcher                     *)
(* (partner_matches_all_products), and the request handler                 *)
(* select_dme_partner with its eligibility filter, its call to the         *)
(* recommendation oracle (llm_model.invoke) and the post-processing that   *)
(* verifies best_partner, alternatives and split_delivery.                 *)
(*                                                                         *)
(* Python strings that the code trims or case-folds are sequences of       *)
(* one-character strings; identifiers the code only compares for equality  *)
(* (partner ids, states) are plain strings. A dictionary key that is not   *)
(* present carries the value Absent (AbsentStr for a text field), which    *)
(* dict.get replaces by its default.                                       *)
(***************************************************************************)
EXTENDS Integers, Sequences, FiniteSets, TLC

VARIABLES
    method,            \* request.method
    body_ok,           \* whether request.body holds the keys read at lines 94-97
    state,             \* order_json["practice_details"]["address"]["address_state"]
    order_products,    \* order_json["details"][0]["products"]
    dme_partners,      \* the roster loaded from dme_partners.json
    eligible_partners, \* the filter's candidate set
    filtered,          \* whether the eligibility filter (lines 105-112) has run
    pc,                \* position of the handler: start, oracle, done
    oracle_calls,      \* number of llm_model.invoke calls made
    reply_kind,        \* what the oracle's reply was: none, invoke_error, not_json, not_object, json
    proposal,          \* result_json as parsed from the oracle's reply
    response,          \* the JsonResponse returned
    round,             \* 1: first handling, 2: the verified result verified again
    first,             \* the response of round 1, kept when round 2 runs
    m_products,        \* matcher: order_products argument
    m_catalog,         \* matcher: partner_catalog argument
    m_result,          \* matcher: the value returned
    m_pc               \* matcher: ready, returned

vars == <<method, body_ok, state, order_products, dme_partners, eligible_partners,
          filtered, pc, oracle_calls, reply_kind, proposal, response, round, first,
          m_products, m_catalog, m_result, m_pc>>

handler_vars == <<method, body_ok, state, order_products, dme_partners,
                  eligible_partners, filtered, pc, oracle_calls, reply_kind, proposal,
                  response, round, first>>

matcher_vars == <<m_products, m_catalog, m_result, m_pc>>

(***************************************************************************)
(* Bounds of the model.                                                    *)
(***************************************************************************)
MaxPartners == 2
MaxProducts == 2
MaxList == 2

(***************************************************************************)
(* Python values.                                                          *)
(***************************************************************************)
Absent == "<absent>"
AbsentStr == <<"<absent>">>
EmptyStr == <<>>

\* dict.get(key, "") on a text field
get_str(v) == IF v = AbsentStr THEN EmptyStr ELSE v

IsSpace(c) == c = " "

RECURSIVE lstrip(_)
lstrip(s) == IF s # <<>> /\ IsSpace(Head(s)) THEN lstrip(Tail(s)) ELSE s

RECURSIVE rstrip(_)
rstrip(s) ==
    IF s # <<>> /\ IsSpace(s[Len(s)]) THEN rstrip(SubSeq(s, 1, Len(s) - 1)) ELSE s

\* str.strip()
strip(s) == rstrip(lstrip(s))

upper_char(c) == CASE c = "a" -> "A" [] c = "b" -> "B" [] c = "e" -> "E"
                   [] c = "s" -> "S" [] OTHER -> c

lower_char(c) == CASE c = "A" -> "a" [] c = "B" -> "b" [] c = "E" -> "e"
                   [] c = "S" -> "s" [] OTHER -> c

\* str.upper()
upper(s) == [i \in 1..Len(s) |-> upper_char(s[i])]

\* str.lower()
lower(s) == [i \in 1..Len(s) |-> lower_char(s[i])]

Range(s) == {s[i] : i \in 1..Len(s)}

RECURSIVE SeqsUpTo(_, _)
SeqsUpTo(S, n) ==
    IF n = 0 THEN {<<>>}
    ELSE LET shorter == SeqsUpTo(S, n - 1)
         IN  shorter \cup {Append(q, x) : q \in {r \in shorter : Len(r) = n - 1}, x \in S}

(***************************************************************************)
(* partner_matches_all_products (lines 73-85).                             *)
(***************************************************************************)
\* the test of one catalog entry p against one product (lines 75-80)
entry_matches(product, p) ==
    LET required_hcpcs  == upper(strip(get_str(product.hcpcs_code)))
        required_option == lower(strip(get_str(product.protocol_step_option)))
    IN  \/ upper(strip(get_str(p.hcpcs_code))) = required_hcpcs
        \/ lower(strip(get_str(p.protocol_step_option))) = required_option

\* match_found = any(... for p in partner_catalog) (lines 78-82)
match_found(product, partner_catalog) ==
    \E i \in 1..Len(partner_catalog) : entry_matches(product, partner_catalog[i])

partner_matches_all_products(products, partner_catalog) ==
    \A i \in 1..Len(products) : match_found(products[i], partner_catalog)

(***************************************************************************)
(* JSON values of the oracle's reply. A value is a record tagged by t:     *)
(* "absent" (the key is not in the dictionary), "null", "obj" (a partner   *)
(* reference with the keys partner_id and partner_name, each possibly      *)
(* absent) or "list".                                                      *)
(***************************************************************************)
JAbsent == [t |-> "absent"]
JNull == [t |-> "null"]
JObj(id, name) == [t |-> "obj", partner_id |-> id, partner_name |-> name]
JList(v) == [t |-> "list", v |-> v]

\* dict.get(key): None for a key that is not present
get(v) == IF v.t = "absent" THEN JNull ELSE v

\* dict.get(key, []): the empty list for a key that is not present
get_list(v) == IF v.t = "absent" THEN JList(<<>>) ELSE v

\* Python's truth value: None, {} and [] are false
truthy(v) ==
    CASE v.t = "obj"  -> v.partner_id # Absent \/ v.partner_name # Absent
      [] v.t = "list" -> v.v # <<>>
      [] OTHER        -> FALSE

(***************************************************************************)
(* The eligibility filter (lines 105-112).                                 *)
(***************************************************************************)
\* contracted with the default of the flag taken as True
contracted_default_true(partner) ==
    IF partner.contracted_payor_status = Absent THEN TRUE
    ELSE partner.contracted_payor_status = "true"

\* partner.get("contracted_payor_status", False)
contracted(partner) ==
    IF partner.contracted_payor_status = Absent THEN FALSE
    ELSE partner.contracted_payor_status = "true"

\* partner.get("state"): None when the key is not present
partner_state(partner) == IF partner.state = Absent THEN "None" ELSE partner.state

is_eligible(partner, st) == partner_state(partner) = st /\ contracted(partner)

RECURSIVE filter_partners(_, _)
filter_partners(partners, st) ==
    IF partners = <<>> THEN <<>>
    ELSE IF is_eligible(Head(partners), st)
         THEN <<Head(partners)>> \o filter_partners(Tail(partners), st)
         ELSE filter_partners(Tail(partners), st)

\* no_eligible testing the roster instead of the candidate set
no_eligible_of_roster(eligible) == dme_partners = <<>>

\* "if not eligible_partners" (line 114)
no_eligible(eligible) == eligible = <<>>

(***************************************************************************)
(* Post-processing of the parsed reply (lines 137-174).                    *)
(***************************************************************************)
product_names_from_order(products) ==
    {strip(get_str(products[i].product_name)) : i \in 1..Len(products)}

product_names_from_partner(partner) ==
    {strip(get_str(partner.product_catalog[i].product_name)) :
        i \in 1..Len(partner.product_catalog)}

\* next((p for p in dme_partners if p["partner_id"] == id), None): the index of
\* the first partner with that id, 0 for None
find_partner(partners, id) ==
    IF \E i \in 1..Len(partners) : partners[i].partner_id = id
    THEN CHOOSE i \in 1..Len(partners) :
            /\ partners[i].partner_id = id
            /\ \A j \in 1..(i - 1) : partners[j].partner_id # id
    ELSE 0

\* supported without the subset test: the partner only has to be found
supported_if_found(id, requested, partners) == find_partner(partners, id) # 0

\* the test of lines 150 and 158: found, and requested is a subset of the catalog
supported(id, requested, partners) ==
    LET i == find_partner(partners, id)
    IN  i # 0 /\ requested \subseteq product_names_from_partner(partners[i])

\* verify_best repairing an unsupported best partner with the first roster
\* partner that covers the order, instead of rejecting it
verify_best_repaired(best, requested, partners) ==
    IF truthy(get(best)) /\ ~supported(best.partner_id, requested, partners)
    THEN IF \E i \in 1..Len(partners) :
               requested \subseteq product_names_from_partner(partners[i])
         THEN LET i == CHOOSE i \in 1..Len(partners) :
                          requested \subseteq product_names_from_partner(partners[i])
              IN  JObj(partners[i].partner_id, best.partner_name)
         ELSE JNull
    ELSE best

\* lines 147-151: the value of result_json["best_partner"] afterwards
verify_best(best, requested, partners) ==
    IF truthy(get(best)) /\ ~supported(best.partner_id, requested, partners)
    THEN JNull
    ELSE best

\* result_json["best_partner"]["partner_id"] raises KeyError (line 148)
best_raises(best) == truthy(get(best)) /\ best.partner_id = Absent

RECURSIVE filter_alternatives(_, _, _)
filter_alternatives(alts, requested, partners) ==
    IF alts = <<>> THEN <<>>
    ELSE IF supported(Head(alts).partner_id, requested, partners)
         THEN <<Head(alts)>> \o filter_alternatives(Tail(alts), requested, partners)
         ELSE filter_alternatives(Tail(alts), requested, partners)

\* verify_alternatives inserting each kept alternative at the front of the list
verify_alternatives_reversed(alternatives, requested, partners) ==
    LET kept == filter_alternatives(get_list(alternatives).v, requested, partners)
    IN  JList([i \in 1..Len(kept) |-> kept[Len(kept) + 1 - i]])

\* lines 154-160: the value of result_json["alternatives"] afterwards
verify_alternatives(alternatives, requested, partners) ==
    JList(filter_alternatives(get_list(alternatives).v, requested, partners))

\* iterating None raises TypeError (line 155); alt["partner_id"] raises KeyError
\* (line 156)
alternatives_raise(alternatives) ==
    \/ alternatives.t = "null"
    \/ /\ alternatives.t = "list"
       /\ \E i \in 1..Len(alternatives.v) : alternatives.v[i].partner_id = Absent

\* set(part.get("fulfilled_products", []))
fulfilled(part) == Range(get_list(part.fulfilled_products).v)

\* lines 164-167
combined_products(split) == UNION {fulfilled(split[i]) : i \in 1..Len(split)}

\* verify_split without lines 170-172: a best partner does not clear the plan
verify_split_kept_with_best(split_delivery, best, requested) ==
    IF truthy(get(split_delivery))
    THEN IF ~(requested \subseteq combined_products(split_delivery.v))
         THEN JList(<<>>)
         ELSE split_delivery
    ELSE split_delivery

\* verify_split rejecting the plan only when it claims none of the requested
\* products
verify_split_partial(split_delivery, best, requested) ==
    IF truthy(get(split_delivery))
    THEN IF \/ (requested # {} /\ requested \cap combined_products(split_delivery.v) = {})
            \/ truthy(get(best))
         THEN JList(<<>>)
         ELSE split_delivery
    ELSE split_delivery

\* verify_split dropping the entries of a kept plan that list no product
verify_split_trimmed(split_delivery, best, requested) ==
    IF truthy(get(split_delivery))
    THEN IF \/ ~(requested \subseteq combined_products(split_delivery.v))
            \/ truthy(get(best))
         THEN JList(<<>>)
         ELSE JList(SelectSeq(split_delivery.v, LAMBDA part : fulfilled(part) # {}))
    ELSE split_delivery

\* lines 163-172: the value of result_json["split_delivery"] afterwards, given
\* the value best_partner has by then
verify_split(split_delivery, best, requested) ==
    IF truthy(get(split_delivery))
    THEN IF \/ ~(requested \subseteq combined_products(split_delivery.v))
            \/ truthy(get(best))
         THEN JList(<<>>)
         ELSE split_delivery
    ELSE split_delivery

\* lines 144-174 on a parsed reply: the exception raised, or result_json as returned
post_process(result_json, products, partners) ==
    LET requested == product_names_from_order(products)
        best      == verify_best(result_json.best_partner, requested, partners)
        alts      == verify_alternatives(result_json.alternatives, requested, partners)
        split     == verify_split(result_json.split_delivery, best, requested)
    IN  IF best_raises(result_json.best_partner)
           \/ alternatives_raise(result_json.alternatives)
        THEN [raised |-> TRUE, result |-> result_json]
        ELSE [raised |-> FALSE,
              result |-> [best_partner   |-> best,
                          alternatives   |-> alts,
                          split_delivery |-> split,
                          summary        |-> result_json.summary]]

(***************************************************************************)
(* Responses.                                                              *)
(***************************************************************************)
NoResult ==
    [best_partner |-> JAbsent, alternatives |-> JAbsent,
     split_delivery |-> JAbsent, summary |-> Absent]

NoResponse == [status |-> 0, error |-> "", body |-> NoResult]

\* JsonResponse({"error": ...}, status=...)
ErrorResponse(code, msg) == [status |-> code, error |-> msg, body |-> NoResult]

\* the error text of line 115
NoEligibleMessage ==
    "No eligible DME partners found for the patient's state and payor status."

\* JsonResponse(result_json) (line 174)
OkResponse(result_json) == [status |-> 200, error |-> "", body |-> result_json]

\* lines 135-179 on the oracle's reply: json.loads, post-processing, and the
\* except clause that turns every exception into the 500 response
respond(content, products, partners) ==
    IF content.kind # "json"
    THEN ErrorResponse(500, "Invalid JSON from LLM")
    ELSE LET out == post_process(content.value, products, partners)
         IN  IF out.raised
             THEN ErrorResponse(500, "Invalid JSON from LLM")
             ELSE OkResponse(out.result)

(***************************************************************************)
(* Inputs: orders, rosters and oracle replies.                             *)
(***************************************************************************)
States == {"CA", "NY"}

OrderProductPool == {[product_name |-> <<" ", "A">>], [product_name |-> <<"B">>]}

\* an order lists at least one product, and each product once
Orders ==
    {q \in SeqsUpTo(OrderProductPool, MaxProducts) :
        /\ q # <<>>
        /\ \A i, j \in 1..Len(q) : q[i] = q[j] => i = j}

FullCatalog == <<[product_name |-> <<"A", " ">>], [product_name |-> <<"B">>]>>
PartCatalog == <<[product_name |-> <<"A">>]>>

\* a roster entry without its partner_id
PartnerProfiles ==
    { [state |-> "CA", contracted_payor_status |-> "true",  product_catalog |-> FullCatalog],
      [state |-> "CA", contracted_payor_status |-> "true",  product_catalog |-> PartCatalog],
      [state |-> "NY", contracted_payor_status |-> "true",  product_catalog |-> FullCatalog],
      [state |-> "CA", contracted_payor_status |-> "false", product_catalog |-> FullCatalog],
      [state |-> "CA", contracted_payor_status |-> Absent,  product_catalog |-> FullCatalog],
      [state |-> Absent, contracted_payor_status |-> "true", product_catalog |-> PartCatalog] }

PartnerIds == <<"P1", "P2", "P3", "P4">>

\* partner ids are unique in the roster: the i-th partner is PartnerIds[i]
Rosters ==
    { [i \in 1..Len(q) |->
          [partner_id              |-> PartnerIds[i],
           state                   |-> q[i].state,
           contracted_payor_status |-> q[i].contracted_payor_status,
           product_catalog         |-> q[i].product_catalog]] :
      q \in SeqsUpTo(PartnerProfiles, MaxPartners) }

BestPool ==
    {JAbsent, JNull, JObj(Absent, Absent), JObj(Absent, "X"), JObj("P1", "X"), JObj("P2", "X")}

AltEntryPool == {JObj("P1", "X"), JObj("P2", "X"), JObj(Absent, "X")}

AlternativesPool == {JAbsent, JNull} \cup {JList(q) : q \in SeqsUpTo(AltEntryPool, MaxList)}

SplitEntryPool ==
    { [partner_id |-> "P1", fulfilled_products |-> JList(<<(<<"A">>)>>)],
      [partner_id |-> "P9", fulfilled_products |-> JList(<<(<<"B">>)>>)],
      [partner_id |-> "P2", fulfilled_products |-> JAbsent] }

SplitPool == {JAbsent} \cup {JList(q) : q \in SeqsUpTo(SplitEntryPool, MaxList)}

\* a reply lists alternatives or a split delivery, not both
Proposals ==
    {p \in [best_partner : BestPool, alternatives : AlternativesPool,
            split_delivery : SplitPool, summary : {"s"}] :
        \/ p.alternatives \in {JAbsent, JList(<<>>)}
        \/ p.split_delivery \in {JAbsent, JList(<<>>)}}

\* what llm_model.invoke, the fence clean-up (lines 128-133) and json.loads make
\* of the reply: an exception of the call, text that is not JSON, JSON that is
\* no object, or a JSON object
OracleContents ==
    {[kind |-> k, value |-> NoResult] : k \in {"invoke_error", "not_json", "not_object"}}
    \cup {[kind |-> "json", value |-> v] : v \in Proposals}

(***************************************************************************)
(* select_dme_partner.                                                     *)
(***************************************************************************)
Init ==
    /\ method \in {"POST", "GET"}
    /\ body_ok \in BOOLEAN
    /\ state \in States
    /\ order_products \in Orders
    /\ dme_partners \in Rosters
    /\ eligible_partners = <<>>
    /\ filtered = FALSE
    /\ pc = "start"
    /\ oracle_calls = 0
    /\ reply_kind = "none"
    /\ proposal = NoResult
    /\ response = NoResponse
    /\ round = 1
    /\ first = NoResponse
    /\ m_products = <<>>
    /\ m_catalog = <<>>
    /\ m_result = FALSE
    /\ m_pc = "idle"

\* lines 90-91
RejectMethod ==
    /\ pc = "start"
    /\ method # "POST"
    /\ response' = ErrorResponse(405, "POST required")
    /\ pc' = "done"
    /\ UNCHANGED <<method, body_ok, state, order_products, dme_partners,
                   eligible_partners, filtered, oracle_calls, reply_kind, proposal,
                   round, first>>
    /\ UNCHANGED matcher_vars

\* lines 93-97 raising (a key of the body is missing), caught at line 176
RejectBody ==
    /\ pc = "start"
    /\ method = "POST"
    /\ ~body_ok
    /\ response' = ErrorResponse(500, "Invalid JSON from LLM")
    /\ pc' = "done"
    /\ UNCHANGED <<method, body_ok, state, order_products, dme_partners,
                   eligible_partners, filtered, oracle_calls, reply_kind, proposal,
                   round, first>>
    /\ UNCHANGED matcher_vars

\* lines 93-124: parse the body, load the roster, filter; with no candidate
\* return the 404 response, otherwise call llm_model.invoke
FilterAndInvoke ==
    /\ pc = "start"
    /\ method = "POST"
    /\ body_ok
    /\ LET eligible == filter_partners(dme_partners, state)
       IN  /\ eligible_partners' = eligible
           /\ filtered' = TRUE
           /\ IF no_eligible(eligible)
              THEN /\ response' = ErrorResponse(404, NoEligibleMessage)
                   /\ pc' = "done"
                   /\ oracle_calls' = oracle_calls
              ELSE /\ response' = response
                   /\ pc' = "oracle"
                   /\ oracle_calls' = oracle_calls + 1
    /\ UNCHANGED <<method, body_ok, state, order_products, dme_partners,
                   reply_kind, proposal, round, first>>
    /\ UNCHANGED matcher_vars

\* lines 124-179: the oracle's reply arrives, is parsed and post-processed
InvokeReturn ==
    /\ pc = "oracle"
    /\ \E content \in OracleContents :
          /\ reply_kind' = content.kind
          /\ proposal' = content.value
          /\ response' = respond(content, order_products, dme_partners)
    /\ pc' = "done"
    /\ UNCHANGED <<method, body_ok, state, order_products, dme_partners,
                   eligible_partners, filtered, oracle_calls, round, first>>
    /\ UNCHANGED matcher_vars

\* the same request handled once more, the oracle now replying with the
\* result that was returned: lines 93-179 with result_json the verified result
VerifyAgain ==
    /\ pc = "done"
    /\ round = 1
    /\ response.status = 200
    /\ first' = response
    /\ reply_kind' = "json"
    /\ proposal' = response.body
    /\ response' = respond([kind |-> "json", value |-> response.body],
                           order_products, dme_partners)
    /\ oracle_calls' = oracle_calls + 1
    /\ round' = 2
    /\ UNCHANGED <<method, body_ok, state, order_products, dme_partners,
                   eligible_partners, filtered, pc>>
    /\ UNCHANGED matcher_vars

Next == RejectMethod \/ RejectBody \/ FilterAndInvoke \/ InvokeReturn \/ VerifyAgain

Spec == Init /\ [][Next]_vars

(***************************************************************************)
(* A call of partner_matches_all_products on its own.                      *)
(***************************************************************************)
MatchProductPool ==
    [hcpcs_code : {AbsentStr, <<" ">>, <<"e", "1", " ">>},
     protocol_step_option : {AbsentStr, <<>>, <<"S", "1">>}]

MatchCatalogPool ==
    [hcpcs_code : {AbsentStr, <<>>, <<"E", "1">>, <<"E", "2">>},
     protocol_step_option : {<<>>, <<" ", "s", "1">>}]

MatchInit ==
    /\ method = "POST"
    /\ body_ok = TRUE
    /\ state = "CA"
    /\ order_products = <<>>
    /\ dme_partners = <<>>
    /\ eligible_partners = <<>>
    /\ filtered = FALSE
    /\ pc = "idle"
    /\ oracle_calls = 0
    /\ reply_kind = "none"
    /\ proposal = NoResult
    /\ response = NoResponse
    /\ round = 1
    /\ first = NoResponse
    /\ m_products \in SeqsUpTo(MatchProductPool, MaxProducts)
    /\ m_catalog \in SeqsUpTo(MatchCatalogPool, MaxProducts)
    /\ m_result = FALSE
    /\ m_pc = "ready"

Match ==
    /\ m_pc = "ready"
    /\ m_result' = partner_matches_all_products(m_products, m_catalog)
    /\ m_pc' = "returned"
    /\ UNCHANGED <<m_products, m_catalog>>
    /\ UNCHANGED handler_vars

MatchNext == Match

MatchSpec == MatchInit /\ [][MatchNext]_vars

(***************************************************************************)
(* Vocabulary of the properties, stated on the data and not through the    *)
(* operators of the post-processing.                                       *)
(***************************************************************************)
\* a result was returned by the latest verification
Verified == pc = "done" /\ response.status = 200

Result == response.body

Trimmed(products) == {strip(get_str(products[i].product_name)) : i \in 1..Len(products)}

Requested == Trimmed(order_products)

RosterIds == {dme_partners[i].partner_id : i \in 1..Len(dme_partners)}

CandidateIds == {eligible_partners[i].partner_id : i \in 1..Len(eligible_partners)}

\* the roster holds a partner with this id whose catalog names cover the order
InRosterAndCovers(id) ==
    \E i \in 1..Len(dme_partners) :
        /\ dme_partners[i].partner_id = id
        /\ Requested \subseteq Trimmed(dme_partners[i].product_catalog)

\* the value is a non-empty object or list
NonEmpty(v) ==
    \/ v.t = "obj" /\ (v.partner_id # Absent \/ v.partner_name # Absent)
    \/ v.t = "list" /\ Len(v.v) > 0

Entries(v) == IF v.t = "list" THEN v.v ELSE <<>>

\* the product names a split delivery claims, over all its entries
Claimed(split) ==
    UNION {IF split[i].fulfilled_products.t = "list"
           THEN {split[i].fulfilled_products.v[k] :
                    k \in 1..Len(split[i].fulfilled_products.v)}
           ELSE {} : i \in 1..Len(split)}

\* the ids of the partners a recommendation names as best partner or alternative
Named(rec) ==
    (IF NonEmpty(rec.best_partner) THEN {rec.best_partner.partner_id} ELSE {})
    \cup {Entries(rec.alternatives)[i].partner_id : i \in 1..Len(Entries(rec.alternatives))}

\* C1 as stated: in every verified result, a best_partner that is present
\* (non-null) comes with an empty split_delivery.
C1_NonNullBestExcludesSplit ==
    Verified /\ Result.best_partner.t = "obj" => ~NonEmpty(Result.split_delivery)

\* C1, amended: in every verified result, a best_partner that is a non-empty
\* object comes with an empty split_delivery, also when the proposed split
\* delivery was complete.
C1_BestExcludesSplit ==
    Verified /\ NonEmpty(Result.best_partner) => ~NonEmpty(Result.split_delivery)

C1_Witness ==
    /\ Verified /\ round = 1
    /\ NonEmpty(Result.best_partner)
    /\ NonEmpty(proposal.split_delivery)
    /\ Requested # {}
    /\ Requested \subseteq Claimed(Entries(proposal.split_delivery))

C3_IncompleteSplitRejected ==
    Verified =>
        /\ NonEmpty(proposal.split_delivery)
           /\ ~(Requested \subseteq Claimed(Entries(proposal.split_delivery)))
              => Result.split_delivery = JList(<<>>)
        /\ NonEmpty(Result.split_delivery)
              => Requested \subseteq Claimed(Entries(Result.split_delivery))

C3_Witness ==
    /\ Verified /\ round = 1
    /\ ~NonEmpty(Result.best_partner)
    /\ Len(Entries(proposal.split_delivery)) = 2
    /\ Claimed(Entries(proposal.split_delivery)) \cap Requested # {}
    /\ ~(Requested \subseteq Claimed(Entries(proposal.split_delivery)))
    /\ Result.split_delivery = JList(<<>>)

\* C4: verifying a verified result again, against the same order and roster,
\* returns exactly that result.
C4_Idempotent ==
    pc = "done" /\ round = 2 => response = first

C4_Witness ==
    /\ Verified /\ round = 2
    /\ NonEmpty(Result.best_partner)
    /\ Len(Entries(Result.alternatives)) = 2
    /\ Entries(Result.alternatives)[1] # Entries(Result.alternatives)[2]

\* a product and a catalog entry agree on a non-empty HCPCS code or on a
\* non-empty protocol_step_option, after trimming and case folding
NonEmptyMatch(product, p) ==
    LET required_hcpcs  == upper(strip(get_str(product.hcpcs_code)))
        required_option == lower(strip(get_str(product.protocol_step_option)))
    IN  \/ required_hcpcs # EmptyStr
           /\ upper(strip(get_str(p.hcpcs_code))) = required_hcpcs
        \/ required_option # EmptyStr
           /\ lower(strip(get_str(p.protocol_step_option))) = required_option

\* C5: the matcher never takes an empty or missing field for a match: when
\* partner_matches_all_products returns True, every product agrees with some
\* catalog entry on a non-empty HCPCS code or a non-empty protocol_step_option.
C5_NoEmptyMatch ==
    m_pc = "returned" /\ m_result =>
        \A i \in 1..Len(m_products) :
            \E j \in 1..Len(m_catalog) : NonEmptyMatch(m_products[i], m_catalog[j])

\* the roster positions of the partners in the order's state with a true flag
CandidatePositions ==
    {i \in 1..Len(dme_partners) :
        /\ dme_partners[i].state = state
        /\ dme_partners[i].contracted_payor_status = "true"}

\* C6: the candidate set is exactly the roster partners whose state is the
\* order's state and whose contracted_payor_status is true (a missing flag
\* counting as false), in roster order, whatever their catalogs hold.
C6_FilterExact ==
    filtered =>
        /\ Len(eligible_partners) = Cardinality(CandidatePositions)
        /\ \A k \in 1..Len(eligible_partners) :
              \E i \in CandidatePositions :
                  /\ Cardinality({j \in CandidatePositions : j <= i}) = k
                  /\ eligible_partners[k] = dme_partners[i]

C6_Witness ==
    /\ filtered
    /\ Requested # {}
    /\ Len(eligible_partners) = 1
    /\ Len(dme_partners) = 2
    /\ eligible_partners[1] = dme_partners[2]
    /\ ~(Requested \subseteq Trimmed(eligible_partners[1].product_catalog))
    /\ dme_partners[1].state = state

\* C7: when the filter yields no candidate the request ends with the 404
\* response, the oracle was not called and nothing was verified; the oracle is
\* called only after the filter yielded a candidate.
C7_NoOracleWithoutCandidates ==
    /\ filtered /\ eligible_partners = <<>> =>
          /\ pc = "done"
          /\ response.status = 404
          /\ oracle_calls = 0
          /\ reply_kind = "none"
    /\ oracle_calls > 0 \/ pc = "oracle" \/ reply_kind # "none" =>
          filtered /\ eligible_partners # <<>>

C7_Witness ==
    /\ filtered
    /\ eligible_partners = <<>>
    /\ Len(dme_partners) = 2
    /\ response.status = 404

\* C8: a reply that parses into a JSON object, however inconsistent, never ends
\* in an error response: its verification returns a result.
C8_VerifierNeverRaises ==
    pc = "done" /\ reply_kind = "json" => response.status = 200

\* C9 as stated: every entry of a non-empty verified split delivery names a
\* partner of the roster whose catalog offers every product the entry lists.
C9_SplitEntriesSupported ==
    Verified /\ NonEmpty(Result.split_delivery) =>
        \A i \in 1..Len(Result.split_delivery.v) :
            \E k \in 1..Len(dme_partners) :
                /\ dme_partners[k].partner_id = Result.split_delivery.v[i].partner_id
                /\ Claimed(<<Result.split_delivery.v[i]>>)
                      \subseteq Trimmed(dme_partners[k].product_catalog)

\* C9, amended: a non-empty verified split delivery is the proposed split
\* delivery, entry for entry; its partner ids and product names are not
\* checked against the roster.
C9_SplitPassedThrough ==
    Verified /\ NonEmpty(Result.split_delivery) =>
        Result.split_delivery = proposal.split_delivery

C9_Witness ==
    /\ Verified /\ round = 1
    /\ Len(Entries(Result.split_delivery)) = 2
    /\ \E i \in 1..2 : Result.split_delivery.v[i].partner_id \notin RosterIds
    /\ \E i \in 1..2 : Result.split_delivery.v[i].fulfilled_products.t = "absent"

\* C10 as stated: every partner a verified result names as best partner or
\* alternative is in the candidate set the filter produced.
C10_NamedAreCandidates ==
    Verified => Named(Result) \subseteq CandidateIds

\* C10, amended: every partner a verified result names as best partner or
\* alternative is a partner of the full roster that the proposal named; it is
\* in the candidate set when the proposal named candidates only.
C10_NamedAreProposedRosterPartners ==
    Verified =>
        /\ Named(Result) \subseteq Named(proposal) \cap RosterIds
        /\ Named(proposal) \subseteq CandidateIds => Named(Result) \subseteq CandidateIds

C10_Witness ==
    /\ Verified /\ round = 1
    /\ NonEmpty(Result.best_partner)
    /\ Result.best_partner.partner_id \notin CandidateIds
    /\ Result.best_partner.partner_id \in RosterIds

====
